---- MODULE Spec2Model ----
(***************************************************************************)
(* Model of library/vmware_host_datastore_san.py: one invocation of the    *)
(* module (VMwareHostSanDatastore.__init__ followed by process_state)      *)
(* against a vCenter inventory, and its re-invocation with the same        *)
(* parameters.  Every remote call is one step; each may raise a fault.     *)
(* Strings whose characters matter (device identifiers, disk names, device *)
(* paths) are sequences of character codes.                                *)
(***************************************************************************)
EXTENDS Integers, Sequences, FiniteSets, TLC

\* ---- bounds ----
NumHosts == 3
MaxRuns == 2

\* ---- inventory universe ----
Hosts == 1..NumHosts
\* a host name that no host of the inventory carries
NoHost == 0
HostNames == Hosts \cup {NoHost}
\* host.parent.name: the last host is alone in its cluster, the others share one
ClusterOf(h) == IF h = NumHosts THEN "cluster2" ELSE "cluster1"

DsNames == {"ds1", "ds2"}
TargetNames == {"ds1"}
\* folders below the 'datastore' folder that are datastore clusters
Pods == {"pod"}
ClusterNameParams == {"", "pod", "ghost"}

\* "5C", "5d" and the absent parameter (None)
None == <<>>
DeviceParams == {None, <<53, 67>>, <<53, 100>>}
\* "naa.5c", "naa.5d"
DiskNames == {<<110, 97, 97, 46, 53, 99>>, <<110, 97, 97, 46, 53, 100>>}

\* ---- string functions ----
\* str.lower()
Lower(s) == [i \in 1..Len(s) |-> IF s[i] \in 65..90 THEN s[i] + 32 ELSE s[i]]

\* str(x): None prints as "None"
PyStr(s) == IF s = None THEN <<78, 111, 110, 101>> ELSE s

LastIndexOf(s, c) ==
    LET idx == {i \in 1..Len(s) : s[i] = c}
    IN  IF idx = {} THEN 0 ELSE CHOOSE i \in idx : \A j \in idx : j <= i

\* s.split('.')[-1]
SplitDotLast(s) == SubSeq(s, LastIndexOf(s, 46) + 1, Len(s))

\* the disk a device path names: the segment after the last '/'
DiskOfPath(p) == SubSeq(p, LastIndexOf(p, 47) + 1, Len(p))

\* sub in s
Contains(sub, s) ==
    \E i \in 0..(Len(s) - Len(sub)) : SubSeq(s, i + 1, i + Len(sub)) = sub

\* "/vmfs/devices/disks/naa." + str(self.volume_device_name)
DsPath(dev) ==
    <<47, 118, 109, 102, 115, 47, 100, 101, 118, 105, 99, 101, 115, 47,
      100, 105, 115, 107, 115, 47, 110, 97, 97, 46>> \o PyStr(dev)

SeqsNoDup(S) ==
    {s \in UNION {[1..n -> S] : n \in 0..Cardinality(S)} :
        \A i, j \in DOMAIN s : i # j => s[i] # s[j]}

\* [x for x in s if P(x)] over a sequence
RECURSIVE SelectMatching(_, _)
SelectMatching(s, dev) ==
    IF s = <<>> THEN <<>>
    ELSE (IF Contains(dev, Head(s)) THEN <<Head(s)>> ELSE <<>>)
         \o SelectMatching(Tail(s), dev)

VARIABLES
    params,     \* module.params
    self,       \* fields set by __init__: esxi, volume_device_name
    inv,        \* inventory: datastore name -> datastore
    inv0,       \* the inventory as it was when this invocation started
    pc,         \* position of the invocation
    datastore,  \* handle returned by check_datastore_host_state ("" is None)
    todo,       \* hosts still to visit in the running for-loop
    cur,        \* sibling host between its HBA and its VMFS rescan
    spec,       \* create / expand spec selected from the queried options
    calls,      \* remote calls issued by this invocation, in order
    outcome,    \* what exit_json / fail_json reported last
    reports,    \* every result this invocation printed, in order
    run,        \* ordinal of this invocation
    history     \* outcomes of the earlier invocations

vars == <<params, self, inv, inv0, pc, datastore, todo, cur, spec, calls, outcome,
          reports, run, history>>

NoDatastore ==
    [exists |-> FALSE, extent |-> {}, host |-> {}, expandOpts |-> <<>>,
     parent |-> "", uuid |-> ""]

VmfsUuid(n) == IF n = "ds1" THEN "uuid-1" ELSE "uuid-2"

NoOutcome == [kind |-> "none", changed |-> FALSE, op |-> "", host |-> NoHost,
              ds |-> "", detail |-> ""]

Call(op, h, ds, uuid, path, ok) ==
    [op |-> op, host |-> h, ds |-> ds, uuid |-> uuid, path |-> path, ok |-> ok]

\* ---- inventory lookups ----
\* find_hostsystem_by_name: the host of that name, or None (NoHost)
find_hostsystem_by_name(name) == IF name \in Hosts THEN name ELSE NoHost

\* mutant: the search falls back on a datastore of another name
find_datastore_by_name_AnyName(i, name) ==
    IF i[name].exists THEN name
    ELSE IF \E n \in DsNames : i[n].exists
         THEN CHOOSE n \in DsNames : i[n].exists
         ELSE ""

\* find_datastore_by_name: the datastore of that name, or None ("")
find_datastore_by_name(i, name) == IF i[name].exists THEN name ELSE ""

\* mutant: the 'host.name != self.esxi_hostname' test is missing
OtherHostsInCluster_WithTarget(esxi, esxi_hostname) ==
    {h \in Hosts : ClusterOf(h) = ClusterOf(esxi)}

\* mutant: the siblings are taken from the whole inventory, not from the cluster
OtherHostsInCluster_AllHosts(esxi, esxi_hostname) ==
    {h \in Hosts : h # esxi_hostname}

\* get_all_hosts_by_cluster(self.esxi.parent.name) without the target host
OtherHostsInCluster(esxi, esxi_hostname) ==
    {h \in Hosts : ClusterOf(h) = ClusterOf(esxi) /\ h # esxi_hostname}

\* [x.diskName.split('.')[-1] for x in datastore.info.vmfs.extent]
existing_wwns(d) == {SplitDotLast(x) : x \in d.extent}

\* disks no datastore uses: the host offers create options for these only
FreeDisks(i) == DiskNames \ UNION {i[n].extent : n \in DsNames}

\* QueryVmfsDatastoreCreateOptions(path): the options, one per usable disk
CreateOptions(i, path) ==
    IF DiskOfPath(path) \in FreeDisks(i) THEN <<path>> ELSE <<>>

\* the query raises NotFound when the path names no disk of the host
PathKnown(path) == DiskOfPath(path) \in DiskNames

Init ==
    /\ params \in [state : {"present", "absent"},
                   esxi_hostname : HostNames,
                   datastore_name : TargetNames,
                   volume_device_name : DeviceParams,
                   datastore_cluster_name : ClusterNameParams]
    /\ self = [esxi |-> NoHost, volume_device_name |-> None]
    /\ \/ inv = [n \in DsNames |-> NoDatastore]
       \/ \E n \in DsNames, ext \in (SUBSET DiskNames) \ {{}},
             hs \in SUBSET Hosts, opts \in SeqsNoDup(DiskNames) :
            inv = [m \in DsNames |->
                     IF m = n
                     THEN [exists |-> TRUE, extent |-> ext, host |-> hs,
                           expandOpts |-> opts, parent |-> "",
                           uuid |-> VmfsUuid(m)]
                     ELSE NoDatastore]
    /\ inv0 = inv
    /\ pc = "init"
    /\ datastore = ""
    /\ todo = {}
    /\ cur = NoHost
    /\ spec = <<>>
    /\ calls = <<>>
    /\ outcome = NoOutcome
    /\ reports = <<>>
    /\ run = 1
    /\ history = <<>>

\* mutant: a bare 'except:' in place of 'except Exception'
CaughtByExceptException_Bare(exc) == TRUE

\* does 'except Exception as e' catch an exception of class exc: SystemExit
\* and KeyboardInterrupt derive from BaseException only
CaughtByExceptException(exc) == exc \notin {"SystemExit", "KeyboardInterrupt"}

\* module.exit_json(changed=...): prints the result and raises SystemExit,
\* inside the try block of process_state
exit_json(changed) ==
    /\ pc' = "done"
    /\ IF CaughtByExceptException("SystemExit")
       THEN /\ reports' = reports \o <<"exit", "fail">>
            /\ outcome' = [kind |-> "fail", changed |-> FALSE,
                           op |-> "process_state", host |-> NoHost, ds |-> "",
                           detail |-> "SystemExit"]
       ELSE /\ reports' = Append(reports, "exit")
            /\ outcome' = [NoOutcome EXCEPT !.kind = "exit", !.changed = changed]

\* module.fail_json(msg=...): op, host and ds are what the message names. It
\* prints the failure and raises SystemExit; the calls made by the handlers
\* of the two state handlers lie inside the try block of process_state
fail_json(op, h, ds, detail) ==
    /\ pc' = "done"
    /\ outcome' = [kind |-> "fail", changed |-> FALSE, op |-> op, host |-> h,
                   ds |-> ds, detail |-> detail]
    /\ reports' = IF op \in {"mount", "umount"}
                     /\ CaughtByExceptException("SystemExit")
                  THEN reports \o <<"fail", "fail">>
                  ELSE Append(reports, "fail")

\* mutant: the device name is kept as the caller spelled it
NormalizeDevice_AsGiven(v) == v

\* __init__: if self.volume_device_name: ... = self.volume_device_name.lower()
NormalizeDevice(v) == IF v # None THEN Lower(v) ELSE v

\* mutant: __init__ without the 'self.esxi is None' check
Construct_NoHostCheck ==
    /\ pc = "init"
    /\ self' = [esxi |-> find_hostsystem_by_name(params.esxi_hostname),
                volume_device_name |->
                    NormalizeDevice(params.volume_device_name)]
    /\ pc' = "check"
    /\ UNCHANGED <<params, inv, inv0, datastore, todo, cur, spec, calls, outcome,
                   reports, run, history>>

\* __init__
Construct ==
    /\ pc = "init"
    /\ LET esxi == find_hostsystem_by_name(params.esxi_hostname)
           dev == NormalizeDevice(params.volume_device_name)
       IN  IF esxi = NoHost
           THEN /\ fail_json("find_host", params.esxi_hostname, "", "not found")
                /\ UNCHANGED self
           ELSE /\ self' = [esxi |-> esxi, volume_device_name |-> dev]
                /\ pc' = "check"
                /\ UNCHANGED <<outcome, reports>>
    /\ UNCHANGED <<params, inv, inv0, datastore, todo, cur, spec, calls, run, history>>

\* mutant: the two handlers are swapped in the ds_states table
check_datastore_host_state_SwappedHandlers ==
    /\ pc = "check"
    /\ \E ok \in BOOLEAN :
        /\ calls' = IF ok
                    THEN calls \o <<Call("RescanAllHba", self.esxi, "", "", <<>>, TRUE),
                                    Call("find_datastore_by_name", NoHost,
                                         params.datastore_name, "", <<>>, TRUE)>>
                    ELSE Append(calls, Call("RescanAllHba", self.esxi, "", "",
                                            <<>>, FALSE))
        /\ IF ok
           THEN /\ datastore' = find_datastore_by_name(inv, params.datastore_name)
                /\ pc' = IF params.state = "present" THEN "umount" ELSE "mount"
                /\ UNCHANGED <<outcome, reports>>
           ELSE /\ fail_json("process_state", NoHost, "", "fault")
                /\ UNCHANGED datastore
    /\ UNCHANGED <<params, self, inv, inv0, todo, cur, spec, run, history>>

\* mutant: the HBA rescan is left out when the desired state is absent
check_datastore_host_state_NoRescanForAbsent ==
    /\ pc = "check"
    /\ \E ok \in {b \in BOOLEAN : params.state = "absent" => b} :
        /\ calls' = IF ~ok
                    THEN Append(calls, Call("RescanAllHba", self.esxi, "", "",
                                            <<>>, FALSE))
                    ELSE (IF params.state = "present"
                          THEN Append(calls, Call("RescanAllHba", self.esxi, "",
                                                  "", <<>>, TRUE))
                          ELSE calls)
                         \o <<Call("find_datastore_by_name", NoHost,
                                   params.datastore_name, "", <<>>, TRUE)>>
        /\ IF ok
           THEN /\ datastore' = find_datastore_by_name(inv, params.datastore_name)
                /\ pc' = IF params.state = "present" THEN "mount" ELSE "umount"
                /\ UNCHANGED <<outcome, reports>>
           ELSE /\ fail_json("process_state", NoHost, "", "fault")
                /\ UNCHANGED datastore
    /\ UNCHANGED <<params, self, inv, inv0, todo, cur, spec, run, history>>

\* check_datastore_host_state, and the dispatch of process_state on state
check_datastore_host_state ==
    /\ pc = "check"
    /\ \E ok \in BOOLEAN :
        /\ calls' = IF ok
                    THEN calls \o <<Call("RescanAllHba", self.esxi, "", "", <<>>, TRUE),
                                    Call("find_datastore_by_name", NoHost,
                                         params.datastore_name, "", <<>>, TRUE)>>
                    ELSE Append(calls, Call("RescanAllHba", self.esxi, "", "",
                                            <<>>, FALSE))
        /\ IF ok
           THEN /\ datastore' = find_datastore_by_name(inv, params.datastore_name)
                /\ pc' = IF params.state = "present" THEN "mount" ELSE "umount"
                /\ UNCHANGED <<outcome, reports>>
           ELSE /\ fail_json("process_state", NoHost, "", "fault")
                /\ UNCHANGED datastore
    /\ UNCHANGED <<params, self, inv, inv0, todo, cur, spec, run, history>>

\* umount_san_datastore_host up to the for-loop over datastore.host
umount_san_datastore_host ==
    /\ pc = "umount"
    /\ IF datastore = ""
       THEN /\ exit_json(FALSE)
            /\ UNCHANGED todo
       ELSE /\ todo' = inv[datastore].host
            /\ pc' = "unmount_loop"
            /\ UNCHANGED <<outcome, reports>>
    /\ UNCHANGED <<params, self, inv, inv0, datastore, cur, spec, calls, run, history>>

\* mutant: when an unmount raises a fault the hosts already unmounted are
\* mounted again before the failure is reported
UnmountVmfsVolume_RemountOnFault ==
    /\ pc = "unmount_loop"
    /\ \E h \in todo, ok \in BOOLEAN :
        /\ calls' = Append(calls, Call("UnmountVmfsVolume", h, "",
                                       inv[datastore].uuid, <<>>, ok))
        /\ IF ok
           THEN /\ inv' = [inv EXCEPT ![datastore].host = @ \ {h}]
                /\ todo' = todo \ {h}
                /\ UNCHANGED <<pc, outcome, reports>>
           ELSE /\ fail_json("umount", params.esxi_hostname,
                             params.datastore_name, "fault")
                /\ inv' = [inv EXCEPT ![datastore].host = inv0[datastore].host]
                /\ UNCHANGED todo
    /\ UNCHANGED <<params, self, inv0, datastore, cur, spec, run, history>>

\* mutant: a fault of the unmount is swallowed and the loop goes on
UnmountVmfsVolume_SwallowFault ==
    /\ pc = "unmount_loop"
    /\ \E h \in todo, ok \in BOOLEAN :
        /\ calls' = Append(calls, Call("UnmountVmfsVolume", h, "",
                                       inv[datastore].uuid, <<>>, ok))
        /\ inv' = IF ok THEN [inv EXCEPT ![datastore].host = @ \ {h}] ELSE inv
        /\ todo' = todo \ {h}
        /\ UNCHANGED <<pc, outcome, reports>>
    /\ UNCHANGED <<params, self, inv0, datastore, cur, spec, run, history>>

\* one iteration: host.key.configManager.storageSystem.UnmountVmfsVolume(uuid)
UnmountVmfsVolume ==
    /\ pc = "unmount_loop"
    /\ \E h \in todo, ok \in BOOLEAN :
        /\ calls' = Append(calls, Call("UnmountVmfsVolume", h, "",
                                       inv[datastore].uuid, <<>>, ok))
        /\ IF ok
           THEN /\ inv' = [inv EXCEPT ![datastore].host = @ \ {h}]
                /\ todo' = todo \ {h}
                /\ UNCHANGED <<pc, outcome, reports>>
           ELSE /\ fail_json("umount", params.esxi_hostname,
                             params.datastore_name, "fault")
                /\ UNCHANGED <<inv, todo>>
    /\ UNCHANGED <<params, self, inv0, datastore, cur, spec, run, history>>

\* self.esxi.configManager.datastoreSystem.RemoveDatastore(datastore), and the exit
RemoveDatastore ==
    /\ pc = "unmount_loop"
    /\ todo = {}
    /\ \E ok \in BOOLEAN :
        /\ calls' = Append(calls, Call("RemoveDatastore", self.esxi, datastore,
                                       "", <<>>, ok))
        /\ IF ok
           THEN /\ inv' = [inv EXCEPT ![datastore] = NoDatastore]
                /\ exit_json(TRUE)
           ELSE /\ fail_json("umount", params.esxi_hostname,
                             params.datastore_name, "fault")
                /\ UNCHANGED inv
    /\ UNCHANGED <<params, self, inv0, datastore, todo, cur, spec, run, history>>

\* mutant: the membership test is inverted
InExistingWwns_Inverted(dev, d) == dev \notin existing_wwns(d)

\* self.volume_device_name in existing_wwns
InExistingWwns(dev, d) == dev \in existing_wwns(d)

\* mutant: an existing datastore is placed into the cluster folder as well
mount_san_datastore_host_PlaceExisting ==
    /\ pc = "mount"
    /\ IF datastore = ""
       THEN /\ pc' = "query_create"
            /\ UNCHANGED <<outcome, reports>>
       ELSE IF InExistingWwns(self.volume_device_name, inv[datastore])
            THEN /\ pc' = "query_expand"
                 /\ UNCHANGED <<outcome, reports>>
            ELSE IF params.datastore_cluster_name # ""
                 THEN /\ pc' = "move"
                      /\ UNCHANGED <<outcome, reports>>
                 ELSE exit_json(FALSE)
    /\ UNCHANGED <<params, self, inv, inv0, datastore, todo, cur, spec, calls, run, history>>

\* mount_san_datastore_host up to its first remote call
mount_san_datastore_host ==
    /\ pc = "mount"
    /\ IF datastore = ""
       THEN /\ pc' = "query_create"
            /\ UNCHANGED <<outcome, reports>>
       ELSE IF InExistingWwns(self.volume_device_name, inv[datastore])
            THEN /\ pc' = "query_expand"
                 /\ UNCHANGED <<outcome, reports>>
            ELSE exit_json(FALSE)
    /\ UNCHANGED <<params, self, inv, inv0, datastore, todo, cur, spec, calls, run, history>>

\* QueryVmfsDatastoreCreateOptions(host_ds_system, ds_path) and vmfs_ds_options[0]
QueryVmfsDatastoreCreateOptions ==
    /\ pc = "query_create"
    /\ LET ds_path == DsPath(self.volume_device_name)
       IN  \E ok \in {b \in BOOLEAN : b => PathKnown(ds_path)} :
            /\ calls' = Append(calls, Call("QueryVmfsDatastoreCreateOptions",
                                           self.esxi, "", "", ds_path, ok))
            /\ IF ~ok
               THEN /\ fail_json("mount", params.esxi_hostname,
                                 params.datastore_name, "fault")
                    /\ UNCHANGED spec
               ELSE IF CreateOptions(inv, ds_path) = <<>>
                    THEN /\ fail_json("mount", params.esxi_hostname,
                                      params.datastore_name, "IndexError")
                         /\ UNCHANGED spec
                    ELSE /\ spec' = CreateOptions(inv, ds_path)[1]
                         /\ pc' = "create"
                         /\ UNCHANGED <<outcome, reports>>
    /\ UNCHANGED <<params, self, inv, inv0, datastore, todo, cur, run, history>>

\* mutant: a create that raised a fault is tried a second time
CreateVmfsDatastore_RetryOnce ==
    /\ pc = "create"
    /\ \E ok \in BOOLEAN :
        /\ calls' = Append(calls, Call("CreateVmfsDatastore", self.esxi,
                                       params.datastore_name, "", spec, ok))
        /\ IF ok
           THEN /\ inv' = [inv EXCEPT ![params.datastore_name] =
                             [exists |-> TRUE, extent |-> {DiskOfPath(spec)},
                              host |-> {self.esxi}, expandOpts |-> <<>>,
                              parent |-> "",
                              uuid |-> VmfsUuid(params.datastore_name)]]
                /\ IF params.datastore_cluster_name # ""
                   THEN /\ pc' = "move"
                        /\ UNCHANGED todo
                   ELSE /\ pc' = "rescan"
                        /\ todo' = OtherHostsInCluster(self.esxi,
                                                       params.esxi_hostname)
                /\ UNCHANGED <<outcome, reports>>
           ELSE IF \E i \in DOMAIN calls : calls[i].op = "CreateVmfsDatastore"
                THEN /\ fail_json("mount", params.esxi_hostname,
                                  params.datastore_name, "fault")
                     /\ UNCHANGED <<inv, todo>>
                ELSE UNCHANGED <<pc, outcome, reports, inv, todo>>
    /\ UNCHANGED <<params, self, inv0, datastore, cur, spec, run, history>>

\* CreateVmfsDatastore(host_ds_system, vmfs_ds_options[0].spec)
CreateVmfsDatastore ==
    /\ pc = "create"
    /\ \E ok \in BOOLEAN :
        /\ calls' = Append(calls, Call("CreateVmfsDatastore", self.esxi,
                                       params.datastore_name, "", spec, ok))
        /\ IF ok
           THEN /\ inv' = [inv EXCEPT ![params.datastore_name] =
                             [exists |-> TRUE, extent |-> {DiskOfPath(spec)},
                              host |-> {self.esxi}, expandOpts |-> <<>>,
                              parent |-> "",
                              uuid |-> VmfsUuid(params.datastore_name)]]
                /\ IF params.datastore_cluster_name # ""
                   THEN /\ pc' = "move"
                        /\ UNCHANGED todo
                   ELSE /\ pc' = "rescan"
                        /\ todo' = OtherHostsInCluster(self.esxi,
                                                       params.esxi_hostname)
                /\ UNCHANGED <<outcome, reports>>
           ELSE /\ fail_json("mount", params.esxi_hostname,
                             params.datastore_name, "fault")
                /\ UNCHANGED <<inv, todo>>
    /\ UNCHANGED <<params, self, inv0, datastore, cur, spec, run, history>>

\* the folder lookups, tgtfolder.MoveIntoFolder_Task([srcfolder]) and wait_for_task
MoveIntoFolder ==
    /\ pc = "move"
    /\ IF params.datastore_cluster_name \notin Pods
       THEN /\ fail_json("mount", params.esxi_hostname, params.datastore_name,
                         "IndexError")
            /\ UNCHANGED <<inv, todo, calls>>
       ELSE \E ok \in BOOLEAN :
            /\ calls' = Append(calls, Call("MoveIntoFolder_Task", NoHost,
                                           params.datastore_name, "", <<>>, ok))
            /\ IF ok
               THEN /\ inv' = [inv EXCEPT ![params.datastore_name].parent =
                                 params.datastore_cluster_name]
                    /\ pc' = "rescan"
                    /\ todo' = OtherHostsInCluster(self.esxi, params.esxi_hostname)
                    /\ UNCHANGED <<outcome, reports>>
               ELSE /\ fail_json("mount", params.esxi_hostname,
                                 params.datastore_name, "fault")
                    /\ UNCHANGED <<inv, todo>>
    /\ UNCHANGED <<params, self, inv0, datastore, cur, spec, run, history>>

\* mutant: a fault of a sibling's HBA rescan is ignored and the loop goes on
SiblingRescanAllHba_IgnoreFault ==
    /\ pc = "rescan"
    /\ cur = NoHost
    /\ \E h \in todo, ok \in BOOLEAN :
        /\ calls' = Append(calls, Call("RescanAllHba", h, "", "", <<>>, ok))
        /\ cur' = h
        /\ UNCHANGED <<pc, outcome, reports>>
    /\ UNCHANGED <<params, self, inv, inv0, datastore, todo, spec, run, history>>

\* rescan_other_hosts_in_cluster: host.configManager.storageSystem.RescanAllHba()
SiblingRescanAllHba ==
    /\ pc = "rescan"
    /\ cur = NoHost
    /\ \E h \in todo, ok \in BOOLEAN :
        /\ calls' = Append(calls, Call("RescanAllHba", h, "", "", <<>>, ok))
        /\ IF ok
           THEN /\ cur' = h
                /\ UNCHANGED <<pc, outcome, reports>>
           ELSE /\ fail_json("mount", params.esxi_hostname,
                             params.datastore_name, "fault")
                /\ UNCHANGED cur
    /\ UNCHANGED <<params, self, inv, inv0, datastore, todo, spec, run, history>>

\* rescan_other_hosts_in_cluster: host.configManager.storageSystem.RescanVmfs()
SiblingRescanVmfs ==
    /\ pc = "rescan"
    /\ cur # NoHost
    /\ \E ok \in BOOLEAN :
        /\ calls' = Append(calls, Call("RescanVmfs", cur, "", "", <<>>, ok))
        /\ IF ok
           THEN /\ todo' = todo \ {cur}
                /\ cur' = NoHost
                /\ UNCHANGED <<pc, outcome, reports>>
           ELSE /\ fail_json("mount", params.esxi_hostname,
                             params.datastore_name, "fault")
                /\ UNCHANGED <<todo, cur>>
    /\ UNCHANGED <<params, self, inv, inv0, datastore, spec, run, history>>

\* self.module.exit_json(changed=True, result=result_msg) of the create branch
ExitCreated ==
    /\ pc = "rescan"
    /\ cur = NoHost
    /\ todo = {}
    /\ exit_json(TRUE)
    /\ UNCHANGED <<params, self, inv, inv0, datastore, todo, cur, spec, calls, run, history>>

\* mutant: the 'len(exp_options) > 0' test is missing
QueryVmfsDatastoreExpandOptions_NoLenCheck ==
    /\ pc = "query_expand"
    /\ \E ok \in BOOLEAN :
        /\ calls' = Append(calls, Call("QueryVmfsDatastoreExpandOptions",
                                       self.esxi, datastore, "", <<>>, ok))
        /\ IF ~ok
           THEN /\ fail_json("mount", params.esxi_hostname,
                             params.datastore_name, "fault")
                /\ UNCHANGED spec
           ELSE LET matching == SelectMatching(inv[datastore].expandOpts,
                                               Lower(self.volume_device_name))
                IN  IF matching = <<>>
                    THEN /\ fail_json("mount", params.esxi_hostname,
                                      params.datastore_name, "IndexError")
                         /\ UNCHANGED spec
                    ELSE /\ spec' = matching[1]
                         /\ pc' = "expand"
                         /\ UNCHANGED <<outcome, reports>>
    /\ UNCHANGED <<params, self, inv, inv0, datastore, todo, cur, run, history>>

\* QueryVmfsDatastoreExpandOptions(datastore=datastore) and the choice of spec
QueryVmfsDatastoreExpandOptions ==
    /\ pc = "query_expand"
    /\ \E ok \in BOOLEAN :
        /\ calls' = Append(calls, Call("QueryVmfsDatastoreExpandOptions",
                                       self.esxi, datastore, "", <<>>, ok))
        /\ IF ~ok
           THEN /\ fail_json("mount", params.esxi_hostname,
                             params.datastore_name, "fault")
                /\ UNCHANGED spec
           ELSE LET exp_options == inv[datastore].expandOpts
                    matching == SelectMatching(exp_options,
                                               Lower(self.volume_device_name))
                IN  IF Len(exp_options) > 0
                    THEN IF matching = <<>>
                         THEN /\ fail_json("mount", params.esxi_hostname,
                                           params.datastore_name, "IndexError")
                              /\ UNCHANGED spec
                         ELSE /\ spec' = matching[1]
                              /\ pc' = "expand"
                              /\ UNCHANGED <<outcome, reports>>
                    ELSE /\ exit_json(FALSE)
                         /\ UNCHANGED spec
    /\ UNCHANGED <<params, self, inv, inv0, datastore, todo, cur, run, history>>

\* the options the host still offers once an expand spec has been applied
RemainingExpandOptions(opts, used) == SelectSeq(opts, LAMBDA o : o # used)

\* host_ds_system.ExpandVmfsDatastore(datastore=datastore, spec=spec), and the exit
ExpandVmfsDatastore ==
    /\ pc = "expand"
    /\ \E ok \in BOOLEAN :
        /\ calls' = Append(calls, Call("ExpandVmfsDatastore", self.esxi,
                                       datastore, "", spec, ok))
        /\ IF ok
           THEN /\ inv' = [inv EXCEPT
                             ![datastore].extent = @ \cup {spec},
                             ![datastore].expandOpts =
                                 RemainingExpandOptions(@, spec)]
                /\ exit_json(TRUE)
           ELSE /\ fail_json("mount", params.esxi_hostname,
                             params.datastore_name, "fault")
                /\ UNCHANGED inv
    /\ UNCHANGED <<params, self, inv0, datastore, todo, cur, spec, run, history>>

\* the module is run again with the same parameters on the inventory it left
Rerun ==
    /\ pc = "done"
    /\ run < MaxRuns
    /\ history' = Append(history, outcome)
    /\ run' = run + 1
    /\ pc' = "init"
    /\ self' = [esxi |-> NoHost, volume_device_name |-> None]
    /\ datastore' = ""
    /\ todo' = {}
    /\ cur' = NoHost
    /\ spec' = <<>>
    /\ calls' = <<>>
    /\ outcome' = NoOutcome
    /\ reports' = <<>>
    /\ inv0' = inv
    /\ UNCHANGED <<params, inv>>

Next ==
    \/ Construct
    \/ check_datastore_host_state
    \/ umount_san_datastore_host
    \/ UnmountVmfsVolume
    \/ RemoveDatastore
    \/ mount_san_datastore_host
    \/ QueryVmfsDatastoreCreateOptions
    \/ CreateVmfsDatastore
    \/ MoveIntoFolder
    \/ SiblingRescanAllHba
    \/ SiblingRescanVmfs
    \/ ExitCreated
    \/ QueryVmfsDatastoreExpandOptions
    \/ ExpandVmfsDatastore
    \/ Rerun

Spec == Init /\ [][Next]_vars

TypeOK ==
    /\ pc \in {"init", "check", "umount", "unmount_loop", "mount", "query_create",
               "create", "move", "rescan", "query_expand", "expand", "done"}
    /\ outcome.kind \in {"none", "exit", "fail"}
    /\ (pc = "done") <=> (outcome.kind # "none")
    /\ reports \in Seq({"exit", "fail"})
    /\ run \in 1..MaxRuns
    /\ Len(history) = run - 1

\* ---- vocabulary of the properties ----
MutatingOps == {"CreateVmfsDatastore", "ExpandVmfsDatastore",
                "MoveIntoFolder_Task", "UnmountVmfsVolume", "RemoveDatastore"}

CallsOf(op) == {i \in DOMAIN calls : calls[i].op = op}
OkCallsOf(op) == {i \in CallsOf(op) : calls[i].ok}
NoMutatingCall == \A i \in DOMAIN calls : calls[i].op \notin MutatingOps
\* no remote call of this invocation raised a fault
NoFault == \A i \in DOMAIN calls : calls[i].ok
Done == pc = "done"
ExitedUnchanged == outcome.kind = "exit" /\ ~outcome.changed
ExitedChanged == outcome.kind = "exit" /\ outcome.changed
\* the inspection ran and handed a datastore of the target name to the handler
FoundDatastore == datastore # ""
\* the inspection ran and handed None to the handler
FoundNoDatastore ==
    /\ pc \notin {"init", "check"}
    /\ calls # <<>>
    /\ calls[1].ok
    /\ datastore = ""
\* the lower-cased volume_device_name is a device identifier of an extent
DeviceInExtents ==
    /\ params.volume_device_name # None
    /\ Lower(params.volume_device_name) \in existing_wwns(inv0[datastore])
\* the expand options the host offers whose disk name contains the device
MatchingExpandOptions ==
    IF params.volume_device_name = None THEN {}
    ELSE {i \in DOMAIN inv0[datastore].expandOpts :
            Contains(Lower(params.volume_device_name),
                     inv0[datastore].expandOpts[i])}
Siblings ==
    {h \in Hosts : h # params.esxi_hostname
                   /\ params.esxi_hostname \in Hosts
                   /\ ClusterOf(h) = ClusterOf(params.esxi_hostname)}

\* C1: idempotence. When the module is run again with the same parameters on
\* the inventory the previous run left, the previous run did not fail and no
\* remote call of the second run raises a fault, the second run reports
\* changed=false and issues no create, expand, folder-move, unmount or remove
\* call.
C1_Idempotence ==
    (run > 1 /\ Done /\ history[run - 1].kind = "exit" /\ NoFault)
        => (ExitedUnchanged /\ NoMutatingCall)

\* C2: state=present, a datastore of the target name exists and the
\* lower-cased volume_device_name is among the device identifiers of its
\* extents: no create and no expand call is issued, and (when no remote call
\* raises a fault) the invocation reports changed=false, whatever expand
\* options the host returns.
C2_DeviceInExtentsIsNoOp ==
    (params.state = "present" /\ FoundDatastore /\ DeviceInExtents)
        => /\ CallsOf("CreateVmfsDatastore") = {}
           /\ CallsOf("ExpandVmfsDatastore") = {}
           /\ (Done /\ NoFault) => ExitedUnchanged

\* C3: state=present, a datastore of the target name exists, the device is
\* not among its extents' device identifiers and the host offers one expand
\* option whose disk name contains the device: (when no remote call raises a
\* fault) exactly one ExpandVmfsDatastore call with that option's spec is
\* issued and changed=true is reported.
C3_DeviceNotInExtentsExpands ==
    (/\ params.state = "present"
     /\ FoundDatastore
     /\ ~DeviceInExtents
     /\ Cardinality(MatchingExpandOptions) = 1
     /\ Done
     /\ NoFault)
        => /\ ExitedChanged
           /\ Cardinality(CallsOf("ExpandVmfsDatastore")) = 1
           /\ \A i \in CallsOf("ExpandVmfsDatastore"), j \in MatchingExpandOptions :
                calls[i].path = inv0[datastore].expandOpts[j]

\* C4: state=absent and a datastore of the target name exists: every unmount
\* carries the datastore's VMFS UUID and goes to a mounting host; a
\* RemoveDatastore call goes to the target host and comes after a successful
\* unmount on every mounting host; once an unmount has failed no
\* RemoveDatastore call is made and the outcome is a failure.
C4_UnmountAllThenRemove ==
    (params.state = "absent" /\ FoundDatastore)
        => /\ \A i \in CallsOf("UnmountVmfsVolume") :
                /\ calls[i].uuid = inv0[datastore].uuid
                /\ calls[i].host \in inv0[datastore].host
           /\ \A i \in CallsOf("RemoveDatastore") :
                /\ calls[i].host = params.esxi_hostname
                /\ calls[i].ds = params.datastore_name
                /\ \A h \in inv0[datastore].host :
                     \E j \in OkCallsOf("UnmountVmfsVolume") :
                        j < i /\ calls[j].host = h
           /\ (\E j \in CallsOf("UnmountVmfsVolume") : ~calls[j].ok)
                => /\ CallsOf("RemoveDatastore") = {}
                   /\ outcome.kind = "fail"
           /\ ExitedChanged => OkCallsOf("RemoveDatastore") # {}

\* C4 witness: a datastore mounted on two or more hosts, one of them not the
\* target host, has been unmounted everywhere and removed.
C4_Witness ==
    /\ params.state = "absent"
    /\ FoundDatastore
    /\ Done
    /\ Cardinality(inv0[datastore].host) >= 2
    /\ OkCallsOf("RemoveDatastore") # {}
    /\ ExitedChanged

\* C5: state=absent and the unmount failed on mounting host H: the reported
\* failure names host H and the datastore.
C5_UnmountFailureNamesHost ==
    (/\ params.state = "absent"
     /\ Done
     /\ calls # <<>>
     /\ calls[Len(calls)].op = "UnmountVmfsVolume"
     /\ ~calls[Len(calls)].ok)
        => /\ outcome.kind = "fail"
           /\ outcome.host = calls[Len(calls)].host
           /\ outcome.ds = params.datastore_name

\* what the create scenario promises: one create call for the device path
\* built from the lower-cased device, after the option query for that path;
\* one HBA and one VMFS rescan on each sibling and on no other host;
\* changed=true
CreateScenarioResult ==
    /\ ExitedChanged
    /\ Cardinality(CallsOf("CreateVmfsDatastore")) = 1
    /\ \A i \in CallsOf("CreateVmfsDatastore") :
         /\ calls[i].path = DsPath(Lower(params.volume_device_name))
         /\ calls[i].ds = params.datastore_name
         /\ calls[i].host = params.esxi_hostname
         /\ \E j \in OkCallsOf("QueryVmfsDatastoreCreateOptions") :
              j < i /\ calls[j].path = calls[i].path
    /\ \A h \in Siblings :
         /\ Cardinality({i \in OkCallsOf("RescanAllHba") : calls[i].host = h}) = 1
         /\ Cardinality({i \in OkCallsOf("RescanVmfs") : calls[i].host = h}) = 1
    /\ \A i \in DOMAIN calls :
         (calls[i].op = "RescanVmfs" \/ (calls[i].op = "RescanAllHba" /\ i > 1))
            => calls[i].host \in Siblings

\* C6 as stated: state=present, no datastore of the target name exists and
\* every remote call succeeds: exactly one CreateVmfsDatastore call for
\* /vmfs/devices/disks/naa.<lower-cased device>, one rescan (HBA and VMFS) on
\* each other host of the target host's cluster, changed=true.
C6_CreateScenario ==
    (params.state = "present" /\ FoundNoDatastore /\ Done /\ NoFault)
        => CreateScenarioResult

\* C6 amended: the same, provided the create-option query returns at least
\* one option and datastore_cluster_name, when given, names a folder that
\* exists below the 'datastore' folder.
C6_CreateScenarioAmended ==
    (/\ params.state = "present"
     /\ FoundNoDatastore
     /\ Done
     /\ NoFault
     /\ CreateOptions(inv0, DsPath(Lower(params.volume_device_name))) # <<>>
     /\ params.datastore_cluster_name \in Pods \cup {""})
        => CreateScenarioResult

\* C6 witness: a create with a cluster folder and a sibling host has ended.
C6_Witness ==
    /\ params.state = "present"
    /\ FoundNoDatastore
    /\ Done
    /\ NoFault
    /\ ExitedChanged
    /\ params.datastore_cluster_name \in Pods
    /\ params.volume_device_name # Lower(params.volume_device_name)
    /\ Siblings # {}
    /\ OkCallsOf("MoveIntoFolder_Task") # {}

\* C7: an invocation that ends with changed=true after a successful create or
\* a successful expand has told every other host of the target host's cluster
\* to rescan its HBA and its VMFS layer.
C7_ClusterPropagation ==
    (/\ Done
     /\ ExitedChanged
     /\ OkCallsOf("CreateVmfsDatastore") \cup OkCallsOf("ExpandVmfsDatastore") # {})
        => \A h \in Siblings :
             /\ \E i \in OkCallsOf("RescanAllHba") : i > 1 /\ calls[i].host = h
             /\ \E i \in OkCallsOf("RescanVmfs") : calls[i].host = h

\* C8: state=absent and no datastore of the target name in the inventory: no
\* create, expand, folder-move, unmount or remove call is issued, and the
\* invocation whose inspection returned no datastore reports changed=false.
C8_AbsentOnAbsent ==
    (params.state = "absent" /\ ~inv0[params.datastore_name].exists)
        => /\ NoMutatingCall
           /\ inv = inv0
           /\ (FoundNoDatastore /\ Done) => ExitedUnchanged
           /\ FoundNoDatastore => pc \in {"umount", "done"}

\* C8 witness: an absent run on an inventory that holds only a datastore of
\* another name, mounted on some host, has ended.
C8_Witness ==
    /\ params.state = "absent"
    /\ ~inv0[params.datastore_name].exists
    /\ \E n \in DsNames : inv0[n].exists /\ inv0[n].host # {}
    /\ FoundNoDatastore
    /\ Done

\* C9: esxi_hostname resolves to no host: the invocation fails without any
\* remote call (no HBA rescan, create, expand, folder move, unmount, remove),
\* for either desired state.
C9_UnresolvedHostFailsFirst ==
    (params.esxi_hostname \notin Hosts)
        => /\ calls = <<>>
           /\ inv = inv0
           /\ pc \in {"init", "done"}
           /\ Done => (outcome.kind = "fail" /\ outcome.op = "find_host"
                       /\ outcome.host = params.esxi_hostname)

\* C9 witness: an invocation for an unknown host has ended, on an inventory
\* that holds the target datastore.
C9_Witness ==
    /\ params.esxi_hostname \notin Hosts
    /\ inv0[params.datastore_name].exists
    /\ Done
    /\ outcome.kind = "fail"

\* C10: state=present, a datastore of the target name exists, the device is
\* not among its extents' device identifiers and no expand option matches
\* it: changed=false is reported, not a failure, and no expand call is made.
C10_NoMatchIsUnchanged ==
    (/\ params.state = "present"
     /\ FoundDatastore
     /\ ~DeviceInExtents
     /\ MatchingExpandOptions = {})
        => /\ CallsOf("ExpandVmfsDatastore") = {}
           /\ CallsOf("QueryVmfsDatastoreExpandOptions") = {}
           /\ outcome.kind # "fail"
           /\ Done => ExitedUnchanged
           /\ pc \in {"mount", "done"}

\* C10 witness: such a run has ended while the host offers an expand option
\* for another device.
C10_Witness ==
    /\ params.state = "present"
    /\ FoundDatastore
    /\ params.volume_device_name # None
    /\ ~DeviceInExtents
    /\ MatchingExpandOptions = {}
    /\ inv0[datastore].expandOpts # <<>>
    /\ Done
\* the present path asked the host for the expand options of the existing
\* datastore, and the query returned
ExpandOptionsQueried ==
    /\ params.state = "present"
    /\ FoundDatastore
    /\ OkCallsOf("QueryVmfsDatastoreExpandOptions") # {}

\* C11 as stated: when the present path queries the expand options and the
\* returned list is empty, the invocation ends in a failure, never in an
\* unchanged result.
C11_EmptyOptionsFail ==
    (ExpandOptionsQueried /\ inv0[datastore].expandOpts = <<>> /\ Done)
        => outcome.kind = "fail"

\* C11 amended: when the present path queries the expand options and the
\* returned list is empty, the invocation ends unchanged (changed=false), not
\* in a failure, and makes no expand call; it ends in a failure when the list
\* is non-empty and holds no option whose disk name contains the device.
C11_EmptyOptionsUnchanged ==
    /\ (ExpandOptionsQueried /\ inv0[datastore].expandOpts = <<>>)
        => /\ Done
           /\ ExitedUnchanged
           /\ CallsOf("ExpandVmfsDatastore") = {}
    /\ (/\ ExpandOptionsQueried
        /\ inv0[datastore].expandOpts # <<>>
        /\ MatchingExpandOptions = {})
        => /\ Done
           /\ outcome.kind = "fail"
           /\ CallsOf("ExpandVmfsDatastore") = {}

\* C11 witness: an expand-option query that returned the empty list has ended
\* the invocation.
C11_Witness ==
    /\ ExpandOptionsQueried
    /\ inv0[datastore].expandOpts = <<>>
    /\ Done
    /\ ExitedUnchanged
\* CreateVmfsDatastore succeeded and a later step of the invocation failed:
\* a later remote call raised a fault, or the folder lookup of the move failed
FailedAfterCreate ==
    \E i \in OkCallsOf("CreateVmfsDatastore") :
        \/ \E j \in DOMAIN calls : j > i /\ ~calls[j].ok
        \/ Done /\ outcome.detail = "IndexError"

\* C12: once CreateVmfsDatastore has succeeded and a later step (folder move,
\* sibling rescan) fails, the invocation reports a failure and nothing else,
\* issues no UnmountVmfsVolume or RemoveDatastore call, and the datastore
\* exists under the target name when it ends.
C12_NoRollbackNoPartialSuccess ==
    FailedAfterCreate
        => /\ Done
           /\ outcome.kind = "fail"
           /\ reports = <<"fail">>
           /\ CallsOf("UnmountVmfsVolume") = {}
           /\ CallsOf("RemoveDatastore") = {}
           /\ ~inv0[params.datastore_name].exists
           /\ inv[params.datastore_name].exists

\* C12 witness: the VMFS rescan of a sibling failed after the create and the
\* folder move had succeeded.
C12_Witness ==
    /\ FailedAfterCreate
    /\ OkCallsOf("MoveIntoFolder_Task") # {}
    /\ calls[Len(calls)].op = "RescanVmfs"
    /\ ~calls[Len(calls)].ok
    /\ Done
\* the full HBA rescans issued to the target host
TargetHbaRescans ==
    {i \in CallsOf("RescanAllHba") : calls[i].host = params.esxi_hostname}

\* C13: in an invocation whose host resolves, for either desired state, the
\* first remote call is the target host's RescanAllHba, it is the only HBA
\* rescan of the target host, the search of the inventory by name comes
\* right after it, and every invocation that got past the inspection or has
\* ended has issued it.
C13_RescanOnceBeforeSearch ==
    (params.esxi_hostname \in Hosts)
        => /\ Cardinality(TargetHbaRescans) <= 1
           /\ calls # <<>> => TargetHbaRescans = {1}
           /\ \A i \in CallsOf("find_datastore_by_name") : i = 2 /\ calls[1].ok
           /\ \A i \in DOMAIN calls : calls[i].op \in MutatingOps => i > 2
           /\ pc \notin {"init", "check"} => TargetHbaRescans = {1}
           /\ datastore # "" => CallsOf("find_datastore_by_name") = {2}

\* C13 witness: an absent run has removed a datastore after the rescan and
\* the search.
C13_Witness ==
    /\ params.esxi_hostname \in Hosts
    /\ params.state = "absent"
    /\ Done
    /\ TargetHbaRescans = {1}
    /\ CallsOf("find_datastore_by_name") = {2}
    /\ OkCallsOf("RemoveDatastore") # {}
\* C14: within one invocation create, expand, folder move and remove are
\* each issued at most once and unmount at most once per host; a remote call
\* that raised a fault is the last remote call of the invocation, which has
\* then ended in a failure.
C14_NoRetry ==
    /\ \A op \in {"CreateVmfsDatastore", "ExpandVmfsDatastore",
                  "MoveIntoFolder_Task", "RemoveDatastore"} :
         Cardinality(CallsOf(op)) <= 1
    /\ \A h \in Hosts :
         Cardinality({i \in CallsOf("UnmountVmfsVolume") : calls[i].host = h}) <= 1
    /\ \A i \in DOMAIN calls :
         ~calls[i].ok => /\ i = Len(calls)
                         /\ Done
                         /\ outcome.kind = "fail"
                         /\ reports = <<"fail">>

\* C14 witness: an invocation has ended on a create that raised a fault.
C14_Witness ==
    /\ Done
    /\ calls # <<>>
    /\ calls[Len(calls)].op = "CreateVmfsDatastore"
    /\ ~calls[Len(calls)].ok
\* C15: a MoveIntoFolder call is issued only by a state=present invocation
\* that was given datastore_cluster_name, found no datastore of the target
\* name and has itself created it before the move.
C15_PlacementOnlyOnCreate ==
    /\ \A i \in CallsOf("MoveIntoFolder_Task") :
         /\ params.state = "present"
         /\ params.datastore_cluster_name # ""
         /\ ~inv0[params.datastore_name].exists
         /\ calls[i].ds = params.datastore_name
         /\ \E j \in OkCallsOf("CreateVmfsDatastore") : j < i
    /\ \A n \in DsNames : inv0[n].exists => inv[n].parent = inv0[n].parent
    /\ (pc = "move") => (OkCallsOf("CreateVmfsDatastore") # {}
                         /\ params.datastore_cluster_name # "")

\* C15 witness: a freshly created datastore has been moved into its folder.
C15_Witness ==
    /\ OkCallsOf("MoveIntoFolder_Task") # {}
    /\ inv[params.datastore_name].parent = params.datastore_cluster_name
    /\ \E n \in DsNames : inv0[n].exists
\* C16: a state=present invocation issues no UnmountVmfsVolume and no
\* RemoveDatastore call, and every datastore that existed when it started
\* exists, mounted on the same hosts, in every later state of the
\* invocation, whatever its outcome.
C16_PresentNeverRemoves ==
    (params.state = "present")
        => /\ CallsOf("UnmountVmfsVolume") = {}
           /\ CallsOf("RemoveDatastore") = {}
           /\ pc \notin {"umount", "unmount_loop"}
           /\ \A n \in DsNames :
                inv0[n].exists => /\ inv[n].exists
                                  /\ inv[n].host = inv0[n].host
                                  /\ inv[n].uuid = inv0[n].uuid

\* C16 witness: a present run on an existing, mounted datastore of the target
\* name has ended after an expand.
C16_Witness ==
    /\ params.state = "present"
    /\ inv0[params.datastore_name].exists
    /\ inv0[params.datastore_name].host # {}
    /\ Done
    /\ OkCallsOf("ExpandVmfsDatastore") # {}
\* spellings of device names: "5C", "5c", "5D", "5d"
CaseSpellings == {<<53, 67>>, <<53, 99>>, <<53, 68>>, <<53, 100>>}
UpperOf(c) == IF c \in 97..122 THEN c - 32 ELSE c
SameIgnoringCase(a, b) ==
    /\ Len(a) = Len(b)
    /\ \A i \in 1..Len(a) : UpperOf(a[i]) = UpperOf(b[i])
HasUpperCase(a) == \E i \in 1..Len(a) : a[i] \in 65..90
\* the membership test as an invocation given the spelling v performs it
DeviceTest(v, d) == InExistingWwns(NormalizeDevice(v), d)
\* the invocation took the branch of a device found among the extents
TookInExtentsBranch ==
    pc = "query_expand" \/ CallsOf("QueryVmfsDatastoreExpandOptions") # {}

C18_ExactlyOneOutcome ==
    /\ Len(reports) <= 1
    /\ Done <=> (Len(reports) = 1)
    /\ Done => reports = <<outcome.kind>>
    /\ \A i \in DOMAIN reports :
         reports[i] = "exit" => (i = Len(reports) /\ outcome.kind = "exit")

\* C18 witness: changed=true has been reported from inside the try block of
\* the create branch.
C18_Witness ==
    /\ Done
    /\ reports = <<"exit">>
    /\ outcome.changed
    /\ OkCallsOf("CreateVmfsDatastore") # {}
\* a state=absent invocation has ended on an unmount that raised a fault
UnmountFailed ==
    /\ params.state = "absent"
    /\ Done
    /\ calls # <<>>
    /\ calls[Len(calls)].op = "UnmountVmfsVolume"
    /\ ~calls[Len(calls)].ok
UnmountedHosts == {calls[i].host : i \in OkCallsOf("UnmountVmfsVolume")}

\* C19: when a state=absent invocation ends on a failed unmount, the
\* datastore still exists, it is mounted on exactly its original hosts less
\* the hosts unmounted before the failure (the failing host and the hosts
\* not yet visited among them), no host was asked after the failure, and no
\* call other than the rescan, the search and the unmounts was issued.
C19_PartialUnmount ==
    UnmountFailed
        => /\ inv[datastore].exists
           /\ UnmountedHosts \subseteq inv0[datastore].host
           /\ inv[datastore].host = inv0[datastore].host \ UnmountedHosts
           /\ calls[Len(calls)].host \in inv[datastore].host
           /\ Cardinality(CallsOf("UnmountVmfsVolume"))
                = Cardinality(UnmountedHosts) + 1
           /\ \A i \in DOMAIN calls :
                calls[i].op \in {"RescanAllHba", "find_datastore_by_name",
                                 "UnmountVmfsVolume"}
           /\ outcome.kind = "fail"

\* C19 witness: the failed run left the datastore mounted on a strict,
\* non-empty subset of its hosts that holds a host never asked to unmount.
C19_Witness ==
    /\ UnmountFailed
    /\ UnmountedHosts # {}
    /\ inv[datastore].host # inv0[datastore].host
    /\ inv[datastore].host \ {calls[Len(calls)].host} # {}
\* the rescans issued by rescan_other_hosts_in_cluster: every VMFS rescan and
\* every HBA rescan but the one that opens the invocation
PropagationCalls ==
    {i \in DOMAIN calls :
        calls[i].op = "RescanVmfs" \/ (calls[i].op = "RescanAllHba" /\ i > 1)}

\* C20: every propagation rescan comes after the successful
\* CreateVmfsDatastore and, when datastore_cluster_name is given, after the
\* completed folder move; none goes to the host named esxi_hostname; a
\* sibling's VMFS rescan directly follows its own successful HBA rescan.
C20_PropagationOrdering ==
    \A i \in PropagationCalls :
        /\ \E j \in OkCallsOf("CreateVmfsDatastore") : j < i
        /\ params.datastore_cluster_name # ""
             => \E j \in OkCallsOf("MoveIntoFolder_Task") : j < i
        /\ calls[i].host # params.esxi_hostname
        /\ calls[i].host \in Hosts
        /\ calls[i].op = "RescanVmfs"
             => /\ (i - 1) \in PropagationCalls
                /\ calls[i - 1].op = "RescanAllHba"
                /\ calls[i - 1].ok
                /\ calls[i - 1].host = calls[i].host

\* C20 witness: the sibling loop has finished after a create with a folder
\* move, and the changed result is about to be reported.
C20_Witness ==
    /\ pc = "rescan"
    /\ todo = {}
    /\ cur = NoHost
    /\ OkCallsOf("MoveIntoFolder_Task") # {}
    /\ OkCallsOf("RescanVmfs") # {}
====
